---- MODULE Spec2Model ----
(***************************************************************************)
(* kaartcontrole (helm kc): the value-tree comparator validateChartValues, *)
(* the ignore matcher shouldIgnore and the control flow of main, modelled  *)
(* from src/cmd/main.go.                                                   *)
(*                                                                         *)
(* A Go string is a sequence of one-character strings, so that             *)
(* strings.HasPrefix and the "." joining of paths are computed, not        *)
(* assumed.  A Go interface{} value is a record [tag, val, kids]: tag is   *)
(* the dynamic type, val tells two values of one type apart, kids is the   *)
(* key -> value function of a map[string]interface{} (empty otherwise).    *)
(***************************************************************************)
EXTENDS Integers, Sequences, FiniteSets, TLC

VARIABLES
    defaultValues,    \* chart.Values, the root defaults tree
    providedValues,   \* the root provided tree
    overridesValues,  \* the root overrides tree, or Nil
    ignoreList,       \* IgnoreList, a sequence of strings
    stack,            \* the active calls of validateChartValues, innermost last
    issues,           \* the lines printed by validateChartValues, in order
    issuesFound,      \* *issuesFound
    pc,               \* where main is
    exitCode,         \* the process exit status, -1 while it runs
    valuesFiles,      \* the parsed contents of the -f files, in order
    pairs,            \* what detectPairs returned: the parsed contents of each pair
    pairIdx,          \* the index of the pair the batch loop is at
    overallIssues,    \* overallIssues of main
    loadError,        \* history: a chart, values file or directory walk failed to load
    failed,           \* history: the pairs one of whose files failed to load
    validated,        \* history: the pairs validateChartValues was called for
    callPath,         \* the path argument of a direct call of shouldIgnore
    called,           \* whether that call has returned
    ignored,          \* what it returned
    fs,               \* the directory tree detectPairs walks: its entries
    walkQueue,        \* the paths filepath.Walk has still to hand to the callback
    detected,         \* pairs of detectPairs, the pairs appended so far
    detectPc,         \* where detectPairs is
    callBase          \* history: how many lines were printed before the current
                      \* call of validateChartValues

walkVars == <<defaultValues, providedValues, overridesValues, ignoreList,
              stack, issues, issuesFound>>

mainVars == <<pc, exitCode, valuesFiles, pairs, pairIdx, overallIssues,
              loadError, failed, validated>>

callVars == <<callPath, called, ignored>>

detectVars == <<fs, walkQueue, detected, detectPc>>

otherVars == <<callVars, detectVars, callBase>>

vars == <<walkVars, mainVars, otherVars>>

----------------------------------------------------------------------------
(* Bounds of the model *)

\* the most keys (at all levels together) a generated tree holds
MaxNodes == 2
\* the most entries of a generated ignore list
MaxIgnore == 1
\* the most -f files given on the command line
MaxFiles == 2
\* the most pairs detectPairs returns
MaxPairs == 2
\* the longest path, the longest entry and the longest list a direct call
\* of shouldIgnore is given
MaxPathLen == 3
MaxEntryLen == 2
MaxListLen == 2

----------------------------------------------------------------------------
(* Values *)

EmptyMap == [k \in {} |-> 0]

Nil == [tag |-> "nil", val |-> 0, kids |-> EmptyMap]
Str1 == [tag |-> "string", val |-> 1, kids |-> EmptyMap]
Str2 == [tag |-> "string", val |-> 2, kids |-> EmptyMap]
Int1 == [tag |-> "int", val |-> 1, kids |-> EmptyMap]

MapOf(f) == [tag |-> "map", val |-> 0, kids |-> f]

Scalars == {Nil, Str1, Str2, Int1}

KeyA == <<"a">>
KeyAB == <<"a", "b">>
Keys == {KeyA, KeyAB}

\* v.(map[string]interface{}) succeeds
IsMap(v) == v.tag = "map"

\* m[key] with the comma-ok form: the value, and whether the key exists.
\* Indexing a nil map is legal in Go and finds nothing.
Has(m, key) == IsMap(m) /\ key \in DOMAIN m.kids

Get(m, key) == IF Has(m, key) THEN m.kids[key] ELSE Nil

RECURSIVE MapsOver(_, _)
RECURSIVE ValuesN(_)
\* the maps over keys K holding at most n keys, nested ones included
MapsOver(K, n) ==
    IF K = {} \/ n <= 0 THEN {EmptyMap}
    ELSE LET k == CHOOSE x \in K : TRUE
             rest == K \ {k}
         IN  MapsOver(rest, n) \cup
             UNION { { (k :> v) @@ m : v \in ValuesN(i), m \in MapsOver(rest, n - 1 - i) }
                     : i \in 0 .. (n - 1) }

\* a generated value is a scalar or a map of at least one key
ValuesN(n) == Scalars \cup { MapOf(m) : m \in MapsOver(Keys, n) \ {EmptyMap} }

Trees == { MapOf(m) : m \in MapsOver(Keys, MaxNodes) }

\* the -ignore entries tried: "a", "ab", "a.a"
IgnoreEntries == { <<"a">>, <<"a", "b">>, <<"a", ".", "a">> }

IgnoreLists == UNION { [1 .. n -> IgnoreEntries] : n \in 0 .. MaxIgnore }

----------------------------------------------------------------------------
(* Library functions the comparator calls *)

\* a matcher that wants the whole path, not a prefix of it
HasPrefixWholePath(s, prefix) == s = prefix

\* a matcher that stops at path segments: "a" matches "a" and "a.b", not "ab"
HasPrefixSegment(s, prefix) ==
    /\ Len(s) >= Len(prefix)
    /\ SubSeq(s, 1, Len(prefix)) = prefix
    /\ (Len(s) = Len(prefix) \/ s[Len(prefix) + 1] = ".")

\* strings.HasPrefix(s, prefix)
HasPrefix(s, prefix) ==
    Len(s) >= Len(prefix) /\ SubSeq(s, 1, Len(prefix)) = prefix

\* reflect.DeepEqual on two interface{} values
RECURSIVE DeepEqual(_, _)
DeepEqual(x, y) ==
    /\ x.tag = y.tag
    /\ IF x.tag = "map"
       THEN /\ DOMAIN x.kids = DOMAIN y.kids
            /\ \A k \in DOMAIN x.kids : DeepEqual(x.kids[k], y.kids[k])
       ELSE x.val = y.val

\* what fmt prints for %T
FmtT(v) ==
    IF v.tag = "map" THEN "map[string]interface {}"
    ELSE IF v.tag = "nil" THEN "<nil>"
    ELSE v.tag

----------------------------------------------------------------------------
(* shouldIgnore *)

RECURSIVE shouldIgnoreFrom(_, _, _)
shouldIgnoreFrom(path, list, i) ==
    IF i > Len(list) THEN FALSE
    ELSE IF HasPrefix(path, list[i]) THEN TRUE
    ELSE shouldIgnoreFrom(path, list, i + 1)

shouldIgnore(path, list) == shouldIgnoreFrom(path, list, 1)

----------------------------------------------------------------------------
(* validateChartValues *)

\* a fullKey that forgets the prefix
FullKeyNoPrefix(prefix, key) == key

\* fullKey of key under prefix
FullKey(prefix, key) ==
    IF prefix # <<>> THEN prefix \o <<".">> \o key ELSE key

\* one call of validateChartValues: its arguments and the keys of
\* providedValues its range loop has still to visit
Frame(d, p, o, prefix) ==
    [d |-> d, p |-> p, o |-> o, prefix |-> prefix, todo |-> DOMAIN p.kids]

Issue(kind, path, expected, actual) ==
    [kind |-> kind, path |-> path, expected |-> expected, actual |-> actual]

Top == stack[Len(stack)]

\* the loop of the innermost call moves past key
Advance(key) ==
    [stack EXCEPT ![Len(stack)].todo = @ \ {key}]

Report(issue) ==
    /\ issues' = Append(issues, issue)
    /\ issuesFound' = TRUE

Silent == UNCHANGED <<issues, issuesFound>>

ReportFlagOnly(issue) ==
    /\ issues' = Append(issues, issue)
    /\ UNCHANGED issuesFound

Inputs == <<defaultValues, providedValues, overridesValues, ignoreList,
            mainVars, otherVars>>

\* an ignored key that ends the loop of the call instead of continuing it
IgnoredBreaks ==
    /\ stack # <<>>
    /\ \E key \in Top.todo :
        /\ shouldIgnore(FullKey(Top.prefix, key), ignoreList)
        /\ stack' = [stack EXCEPT ![Len(stack)].todo = {}]
    /\ Silent
    /\ UNCHANGED Inputs

\* line 58: the key's full path is ignored
Ignored ==
    /\ stack # <<>>
    /\ \E key \in Top.todo :
        /\ shouldIgnore(FullKey(Top.prefix, key), ignoreList)
        /\ stack' = Advance(key)
    /\ Silent
    /\ UNCHANGED Inputs

\* line 63: the key is not in defaultValues (the report is commented out)
Missing ==
    /\ stack # <<>>
    /\ \E key \in Top.todo :
        /\ ~shouldIgnore(FullKey(Top.prefix, key), ignoreList)
        /\ ~Has(Top.d, key)
        /\ stack' = Advance(key)
    /\ Silent
    /\ UNCHANGED Inputs

\* a recursion that hands an empty overrides map down
RecurseDropsOverrides ==
    /\ stack # <<>>
    /\ \E key \in Top.todo :
        LET fullKey == FullKey(Top.prefix, key)
        IN  /\ ~shouldIgnore(fullKey, ignoreList)
            /\ Has(Top.d, key)
            /\ IsMap(Top.d.kids[key])
            /\ IsMap(Top.p.kids[key])
            /\ stack' = Append(Advance(key),
                   Frame(Top.d.kids[key], Top.p.kids[key], MapOf(EmptyMap), fullKey))
    /\ Silent
    /\ UNCHANGED Inputs

\* a recursion that leaves the key in the loop of the calling frame
RecurseKeepsKey ==
    /\ stack # <<>>
    /\ \E key \in Top.todo :
        LET fullKey == FullKey(Top.prefix, key)
            overridesMap ==
                IF Top.o # Nil /\ IsMap(Get(Top.o, key))
                THEN Get(Top.o, key) ELSE MapOf(EmptyMap)
        IN  /\ ~shouldIgnore(fullKey, ignoreList)
            /\ Has(Top.d, key)
            /\ IsMap(Top.d.kids[key])
            /\ IsMap(Top.p.kids[key])
            /\ stack' = Append(stack,
                   Frame(Top.d.kids[key], Top.p.kids[key], overridesMap, fullKey))
    /\ Silent
    /\ UNCHANGED Inputs

\* lines 69-77: both are maps, the call recurses
Recurse ==
    /\ stack # <<>>
    /\ \E key \in Top.todo :
        LET fullKey == FullKey(Top.prefix, key)
            overridesMap ==
                IF Top.o # Nil /\ IsMap(Get(Top.o, key))
                THEN Get(Top.o, key) ELSE MapOf(EmptyMap)
        IN  /\ ~shouldIgnore(fullKey, ignoreList)
            /\ Has(Top.d, key)
            /\ IsMap(Top.d.kids[key])
            /\ IsMap(Top.p.kids[key])
            /\ stack' = Append(Advance(key),
                   Frame(Top.d.kids[key], Top.p.kids[key], overridesMap, fullKey))
    /\ Silent
    /\ UNCHANGED Inputs

\* a map mismatch without its continue: the scalar type check of lines
\* 97-104 runs for the key as well
MapMismatchFallsThrough ==
    /\ stack # <<>>
    /\ \E key \in Top.todo :
        LET fullKey == FullKey(Top.prefix, key)
            first == Issue("TypeMismatch", fullKey, "map", FmtT(Top.p.kids[key]))
            second == Issue("TypeMismatch", fullKey,
                            FmtT(Top.d.kids[key]), FmtT(Top.p.kids[key]))
        IN  /\ ~shouldIgnore(fullKey, ignoreList)
            /\ Has(Top.d, key)
            /\ IsMap(Top.d.kids[key])
            /\ ~IsMap(Top.p.kids[key])
            /\ issues' = IF Top.p.kids[key] # Nil
                         THEN Append(Append(issues, first), second)
                         ELSE Append(issues, first)
            /\ issuesFound' = TRUE
            /\ stack' = Advance(key)
    /\ UNCHANGED Inputs

\* lines 78-81: the default is a map, the provided value is not
MapMismatch ==
    /\ stack # <<>>
    /\ \E key \in Top.todo :
        LET fullKey == FullKey(Top.prefix, key)
        IN  /\ ~shouldIgnore(fullKey, ignoreList)
            /\ Has(Top.d, key)
            /\ IsMap(Top.d.kids[key])
            /\ ~IsMap(Top.p.kids[key])
            /\ Report(Issue("TypeMismatch", fullKey, "map", FmtT(Top.p.kids[key])))
            /\ stack' = Advance(key)
    /\ UNCHANGED Inputs

\* a suppression that only asks whether the overrides hold the key
overrideResetAnyOverride(o, key, providedValue) ==
    /\ o # Nil
    /\ Has(o, key)

\* a suppression that does not ask whether the overrides hold the key
overrideResetMissingKey(o, key, providedValue) ==
    /\ o # Nil
    /\ ~DeepEqual(Get(o, key), providedValue)

\* lines 86-90: equal to the default, and the overrides hold another value
overrideReset(o, key, providedValue) ==
    /\ o # Nil
    /\ Has(o, key)
    /\ ~DeepEqual(Get(o, key), providedValue)

Suppressed ==
    /\ stack # <<>>
    /\ \E key \in Top.todo :
        LET fullKey == FullKey(Top.prefix, key)
        IN  /\ ~shouldIgnore(fullKey, ignoreList)
            /\ Has(Top.d, key)
            /\ ~IsMap(Top.d.kids[key])
            /\ DeepEqual(Top.d.kids[key], Top.p.kids[key])
            /\ overrideReset(Top.o, key, Top.p.kids[key])
            /\ stack' = Advance(key)
    /\ Silent
    /\ UNCHANGED Inputs

\* a report of a redundant value that forgets to set *issuesFound
RedundantFlagNotSet ==
    /\ stack # <<>>
    /\ \E key \in Top.todo :
        LET fullKey == FullKey(Top.prefix, key)
        IN  /\ ~shouldIgnore(fullKey, ignoreList)
            /\ Has(Top.d, key)
            /\ ~IsMap(Top.d.kids[key])
            /\ DeepEqual(Top.d.kids[key], Top.p.kids[key])
            /\ ~overrideReset(Top.o, key, Top.p.kids[key])
            /\ ReportFlagOnly(Issue("Redundant", fullKey, "", ""))
            /\ stack' = Advance(key)
    /\ UNCHANGED Inputs

\* lines 85-94: equal to the default, reported
Redundant ==
    /\ stack # <<>>
    /\ \E key \in Top.todo :
        LET fullKey == FullKey(Top.prefix, key)
        IN  /\ ~shouldIgnore(fullKey, ignoreList)
            /\ Has(Top.d, key)
            /\ ~IsMap(Top.d.kids[key])
            /\ DeepEqual(Top.d.kids[key], Top.p.kids[key])
            /\ ~overrideReset(Top.o, key, Top.p.kids[key])
            /\ Report(Issue("Redundant", fullKey, "", ""))
            /\ stack' = Advance(key)
    /\ UNCHANGED Inputs

\* a type check that forgets the two nil tests
typesDifferNilToo(defaultValue, providedValue) ==
    defaultValue.tag # providedValue.tag

\* lines 97-104: both non-nil, of different types
typesDiffer(defaultValue, providedValue) ==
    /\ defaultValue # Nil
    /\ providedValue # Nil
    /\ defaultValue.tag # providedValue.tag

\* a report that names the provided type as expected and the default's as actual
TypeMismatchSwapped ==
    /\ stack # <<>>
    /\ \E key \in Top.todo :
        LET fullKey == FullKey(Top.prefix, key)
        IN  /\ ~shouldIgnore(fullKey, ignoreList)
            /\ Has(Top.d, key)
            /\ ~IsMap(Top.d.kids[key])
            /\ ~DeepEqual(Top.d.kids[key], Top.p.kids[key])
            /\ typesDiffer(Top.d.kids[key], Top.p.kids[key])
            /\ Report(Issue("TypeMismatch", fullKey,
                            FmtT(Top.p.kids[key]), FmtT(Top.d.kids[key])))
            /\ stack' = Advance(key)
    /\ UNCHANGED Inputs

TypeMismatch ==
    /\ stack # <<>>
    /\ \E key \in Top.todo :
        LET fullKey == FullKey(Top.prefix, key)
        IN  /\ ~shouldIgnore(fullKey, ignoreList)
            /\ Has(Top.d, key)
            /\ ~IsMap(Top.d.kids[key])
            /\ ~DeepEqual(Top.d.kids[key], Top.p.kids[key])
            /\ typesDiffer(Top.d.kids[key], Top.p.kids[key])
            /\ Report(Issue("TypeMismatch", fullKey,
                            FmtT(Top.d.kids[key]), FmtT(Top.p.kids[key])))
            /\ stack' = Advance(key)
    /\ UNCHANGED Inputs

\* lines 97-105: a different value of the same type, or a nil
NoIssue ==
    /\ stack # <<>>
    /\ \E key \in Top.todo :
        LET fullKey == FullKey(Top.prefix, key)
        IN  /\ ~shouldIgnore(fullKey, ignoreList)
            /\ Has(Top.d, key)
            /\ ~IsMap(Top.d.kids[key])
            /\ ~DeepEqual(Top.d.kids[key], Top.p.kids[key])
            /\ ~typesDiffer(Top.d.kids[key], Top.p.kids[key])
            /\ stack' = Advance(key)
    /\ Silent
    /\ UNCHANGED Inputs

\* line 106-107: the range loop is over, the call returns
Return ==
    /\ stack # <<>>
    /\ Top.todo = {}
    /\ stack' = SubSeq(stack, 1, Len(stack) - 1)
    /\ Silent
    /\ UNCHANGED Inputs

validateChartValues ==
    \/ Ignored
    \/ Missing
    \/ Recurse
    \/ MapMismatch
    \/ Suppressed
    \/ Redundant
    \/ TypeMismatch
    \/ NoIssue
    \/ Return

----------------------------------------------------------------------------
(* validateChartValues as a function of its arguments: the issues one call *)
(* prints, as a set                                                        *)

RECURSIVE validateResult(_, _, _, _, _)

\* a comparator whose loop also ranges over the keys of defaultValues and
\* reports the ones providedValues lacks
validateResultDefaultsToo(d, p, o, prefix, list) ==
    UNION { LET fullKey == FullKey(prefix, key)
            IN  IF shouldIgnore(fullKey, list) THEN {}
                ELSE IF ~Has(p, key) THEN {Issue("Missing", fullKey, "", "")}
                ELSE IF ~Has(d, key) THEN {}
                ELSE IF IsMap(d.kids[key])
                THEN IF IsMap(p.kids[key])
                     THEN validateResult(d.kids[key], p.kids[key],
                              IF o # Nil /\ IsMap(Get(o, key))
                              THEN Get(o, key) ELSE MapOf(EmptyMap),
                              fullKey, list)
                     ELSE {Issue("TypeMismatch", fullKey, "map", FmtT(p.kids[key]))}
                ELSE IF DeepEqual(d.kids[key], p.kids[key])
                THEN IF overrideReset(o, key, p.kids[key]) THEN {}
                     ELSE {Issue("Redundant", fullKey, "", "")}
                ELSE IF typesDiffer(d.kids[key], p.kids[key])
                THEN {Issue("TypeMismatch", fullKey,
                            FmtT(d.kids[key]), FmtT(p.kids[key]))}
                ELSE {}
            : key \in DOMAIN p.kids \cup DOMAIN d.kids }

\* lines 51-107, the range loop over providedValues with each branch's report
validateResult(d, p, o, prefix, list) ==
    UNION { LET fullKey == FullKey(prefix, key)
            IN  IF shouldIgnore(fullKey, list) THEN {}
                ELSE IF ~Has(d, key) THEN {}
                ELSE IF IsMap(d.kids[key])
                THEN IF IsMap(p.kids[key])
                     THEN validateResult(d.kids[key], p.kids[key],
                              IF o # Nil /\ IsMap(Get(o, key))
                              THEN Get(o, key) ELSE MapOf(EmptyMap),
                              fullKey, list)
                     ELSE {Issue("TypeMismatch", fullKey, "map", FmtT(p.kids[key]))}
                ELSE IF DeepEqual(d.kids[key], p.kids[key])
                THEN IF overrideReset(o, key, p.kids[key]) THEN {}
                     ELSE {Issue("Redundant", fullKey, "", "")}
                ELSE IF typesDiffer(d.kids[key], p.kids[key])
                THEN {Issue("TypeMismatch", fullKey,
                            FmtT(d.kids[key]), FmtT(p.kids[key]))}
                ELSE {}
            : key \in DOMAIN p.kids }

----------------------------------------------------------------------------
(* The comparator called directly, as the tests call it *)

Init ==
    /\ defaultValues \in Trees
    /\ providedValues \in Trees
    /\ overridesValues \in Trees \cup {Nil}
    /\ ignoreList \in IgnoreLists
    /\ stack = <<Frame(defaultValues, providedValues, overridesValues, <<>>)>>
    /\ issues = <<>>
    /\ issuesFound = FALSE
    /\ pc = "test"
    /\ exitCode = -1
    /\ valuesFiles = <<>>
    /\ pairs = <<>>
    /\ pairIdx = 0
    /\ overallIssues = FALSE
    /\ loadError = FALSE
    /\ failed = {}
    /\ validated = {}
    /\ callPath = <<>>
    /\ called = FALSE
    /\ ignored = FALSE
    /\ fs = {}
    /\ walkQueue = <<>>
    /\ detected = <<>>
    /\ detectPc = "idle"
    /\ callBase = 0

Next == validateChartValues

Spec == Init /\ [][Next]_vars

----------------------------------------------------------------------------
(* The comparator called on trees that hold sequences *)

\* two []interface{} values
List1 == [tag |-> "[]interface {}", val |-> 1, kids |-> EmptyMap]
List2 == [tag |-> "[]interface {}", val |-> 2, kids |-> EmptyMap]

\* tree t with its second string and its int replaced by the two sequences
RECURSIVE WithLists(_)
WithLists(t) ==
    IF IsMap(t) THEN MapOf([k \in DOMAIN t.kids |-> WithLists(t.kids[k])])
    ELSE IF t = Str2 THEN List1
    ELSE IF t = Int1 THEN List2
    ELSE t

ListTrees == { WithLists(t) : t \in Trees }

ListOverrides == { Nil, MapOf(EmptyMap), MapOf(KeyA :> List2) }

ListInit ==
    /\ defaultValues \in ListTrees
    /\ providedValues \in ListTrees
    /\ overridesValues \in ListOverrides
    /\ ignoreList \in { <<>>, << KeyAB >> }
    /\ stack = <<Frame(defaultValues, providedValues, overridesValues, <<>>)>>
    /\ issues = <<>>
    /\ issuesFound = FALSE
    /\ pc = "test"
    /\ exitCode = -1
    /\ valuesFiles = <<>>
    /\ pairs = <<>>
    /\ pairIdx = 0
    /\ overallIssues = FALSE
    /\ loadError = FALSE
    /\ failed = {}
    /\ validated = {}
    /\ callPath = <<>>
    /\ called = FALSE
    /\ ignored = FALSE
    /\ fs = {}
    /\ walkQueue = <<>>
    /\ detected = <<>>
    /\ detectPc = "idle"
    /\ callBase = 0

ListNext == validateChartValues

ListSpec == ListInit /\ [][ListNext]_vars

----------------------------------------------------------------------------
(* shouldIgnore called directly *)

\* the characters of a path
Chars == {"a", "."}

StringsUpTo(n) == UNION { [1 .. k -> Chars] : k \in 0 .. n }

IgnoreInit ==
    /\ callPath \in StringsUpTo(MaxPathLen)
    /\ ignoreList \in UNION { [1 .. n -> StringsUpTo(MaxEntryLen)] : n \in 0 .. MaxListLen }
    /\ called = FALSE
    /\ ignored = FALSE
    /\ pc = "call"
    /\ defaultValues = MapOf(EmptyMap)
    /\ providedValues = MapOf(EmptyMap)
    /\ overridesValues = Nil
    /\ stack = <<>>
    /\ issues = <<>>
    /\ issuesFound = FALSE
    /\ exitCode = -1
    /\ valuesFiles = <<>>
    /\ pairs = <<>>
    /\ pairIdx = 0
    /\ overallIssues = FALSE
    /\ loadError = FALSE
    /\ failed = {}
    /\ validated = {}
    /\ fs = {}
    /\ walkQueue = <<>>
    /\ detected = <<>>
    /\ detectPc = "idle"
    /\ callBase = 0

CallShouldIgnore ==
    /\ pc = "call"
    /\ ~called
    /\ ignored' = shouldIgnore(callPath, ignoreList)
    /\ called' = TRUE
    /\ UNCHANGED <<callPath, walkVars, mainVars, detectVars, callBase>>

IgnoreNext == CallShouldIgnore

IgnoreSpec == IgnoreInit /\ [][IgnoreNext]_vars

----------------------------------------------------------------------------
(* main *)

\* the chart defaults and the values files main is run on
D0 == MapOf(KeyA :> Str1 @@ KeyAB :> MapOf(KeyA :> Str1))
DefaultsPool == {D0}
FilePool ==
    { MapOf(KeyA :> Str1),
      MapOf(KeyA :> Str2),
      MapOf(KeyA :> Int1 @@ KeyAB :> MapOf(KeyAB :> Str1)),
      MapOf(KeyAB :> Str1) }
MainIgnoreLists == { <<>>, << <<"a", "b">> >> }

\* helm's merge of two values maps: the later file wins, maps merge key by key
RECURSIVE MergeMaps(_, _)
MergeMaps(a, b) ==
    MapOf([k \in DOMAIN a.kids \cup DOMAIN b.kids |->
             IF k \notin DOMAIN b.kids THEN a.kids[k]
             ELSE IF k \in DOMAIN a.kids /\ IsMap(a.kids[k]) /\ IsMap(b.kids[k])
                  THEN MergeMaps(a.kids[k], b.kids[k])
                  ELSE b.kids[k]])

\* values.Options{ValueFiles: files}.MergeValues(nil)
RECURSIVE MergeValues(_)
MergeValues(files) ==
    IF files = <<>> THEN MapOf(EmptyMap)
    ELSE MergeMaps(MergeValues(SubSeq(files, 1, Len(files) - 1)), files[Len(files)])

\* os.Exit(code), or main returning (code 0)
Exit(code) ==
    /\ pc' = "exit"
    /\ exitCode' = code

History == <<loadError, failed, validated>>
Batch == <<pairs, pairIdx, overallIssues>>

\* lines 198-206: no chart argument
Usage ==
    /\ pc = "args"
    /\ Exit(1)
    /\ UNCHANGED <<walkVars, otherVars, valuesFiles, Batch, History>>

ArgsOK ==
    /\ pc = "args"
    /\ pc' = "findChart"
    /\ UNCHANGED <<walkVars, otherVars, exitCode, valuesFiles, Batch, History>>

\* lines 210-214
FindChartFail ==
    /\ pc = "findChart"
    /\ Exit(1)
    /\ loadError' = TRUE
    /\ UNCHANGED <<walkVars, otherVars, valuesFiles, Batch, failed, validated>>

FindChartOK ==
    /\ pc = "findChart"
    /\ pc' = "statChart"
    /\ UNCHANGED <<walkVars, otherVars, exitCode, valuesFiles, Batch, History>>

\* lines 216-219
ChartDirMissing ==
    /\ pc = "statChart"
    /\ Exit(1)
    /\ loadError' = TRUE
    /\ UNCHANGED <<walkVars, otherVars, valuesFiles, Batch, failed, validated>>

ChartDirOK ==
    /\ pc = "statChart"
    /\ pc' = "helmInit"
    /\ UNCHANGED <<walkVars, otherVars, exitCode, valuesFiles, Batch, History>>

\* lines 221-226
HelmInitFail ==
    /\ pc = "helmInit"
    /\ Exit(1)
    /\ UNCHANGED <<walkVars, otherVars, valuesFiles, Batch, History>>

HelmInitOK ==
    /\ pc = "helmInit"
    /\ pc' = "loadChart"
    /\ UNCHANGED <<walkVars, otherVars, exitCode, valuesFiles, Batch, History>>

\* lines 228-232
LoadChartFail ==
    /\ pc = "loadChart"
    /\ Exit(1)
    /\ loadError' = TRUE
    /\ UNCHANGED <<walkVars, otherVars, valuesFiles, Batch, failed, validated>>

\* lines 228-237, 281
LoadChartOK ==
    /\ pc = "loadChart"
    /\ defaultValues' \in DefaultsPool
    /\ pc' = IF Len(valuesFiles) > 0 THEN "loadOverride" ELSE "getwd"
    /\ UNCHANGED <<providedValues, overridesValues, ignoreList, stack, issues,
                   issuesFound, otherVars, exitCode, valuesFiles, Batch, History>>

\* lines 240-249: the files but the last fail to load
LoadOverrideFail ==
    /\ pc = "loadOverride"
    /\ Len(valuesFiles) > 1
    /\ Exit(1)
    /\ loadError' = TRUE
    /\ UNCHANGED <<walkVars, otherVars, valuesFiles, Batch, failed, validated>>

\* lines 239-249: overrideValues stays nil with a single file
LoadOverrideOK ==
    /\ pc = "loadOverride"
    /\ overridesValues' =
           IF Len(valuesFiles) > 1
           THEN MergeValues(SubSeq(valuesFiles, 1, Len(valuesFiles) - 1))
           ELSE Nil
    /\ pc' = "loadValues"
    /\ UNCHANGED <<defaultValues, providedValues, ignoreList, stack, issues,
                   issuesFound, otherVars, exitCode, valuesFiles, Batch, History>>

\* lines 252-259
LoadValuesFail ==
    /\ pc = "loadValues"
    /\ Exit(1)
    /\ loadError' = TRUE
    /\ UNCHANGED <<walkVars, otherVars, valuesFiles, Batch, failed, validated>>

\* lines 252-271: the merged values load, validateChartValues is called
LoadValuesOK ==
    /\ pc = "loadValues"
    /\ providedValues' = MergeValues(valuesFiles)
    /\ issuesFound' = FALSE
    /\ stack' = <<Frame(defaultValues, providedValues', overridesValues, <<>>)>>
    /\ pc' = "validate"
    /\ callBase' = Len(issues)
    /\ UNCHANGED <<defaultValues, overridesValues, ignoreList, issues,
                   callVars, detectVars, exitCode, valuesFiles, Batch, History>>

\* lines 272-278
ExplicitDone ==
    /\ pc = "validate"
    /\ stack = <<>>
    /\ Exit(IF issuesFound THEN 1 ELSE 0)
    /\ UNCHANGED <<walkVars, otherVars, valuesFiles, Batch, History>>

\* lines 283-287
GetwdFail ==
    /\ pc = "getwd"
    /\ Exit(1)
    /\ UNCHANGED <<walkVars, otherVars, valuesFiles, Batch, History>>

GetwdOK ==
    /\ pc = "getwd"
    /\ pc' = "detectPairs"
    /\ UNCHANGED <<walkVars, otherVars, exitCode, valuesFiles, Batch, History>>

\* lines 290-294: the directory walk fails
DetectPairsFail ==
    /\ pc = "detectPairs"
    /\ Exit(1)
    /\ loadError' = TRUE
    /\ UNCHANGED <<walkVars, otherVars, valuesFiles, Batch, failed, validated>>

\* lines 295-298: no pair is found
DetectPairsNone ==
    /\ pc = "detectPairs"
    /\ Exit(1)
    /\ UNCHANGED <<walkVars, otherVars, valuesFiles, Batch, History>>

\* lines 290-301: the pairs found, each with what its two files hold
DetectPairsOK ==
    /\ pc = "detectPairs"
    /\ pairs' \in UNION { [1 .. n -> [override : FilePool, service : FilePool]]
                          : n \in 1 .. MaxPairs }
    /\ pairIdx' = 1
    /\ overallIssues' = FALSE
    /\ pc' = "pairOverrides"
    /\ UNCHANGED <<walkVars, otherVars, exitCode, valuesFiles, History>>

\* a failure to load a pair's overrides that ends the process
PairOverridesFailExits ==
    /\ pc = "pairOverrides"
    /\ pairIdx <= Len(pairs)
    /\ failed' = failed \cup {pairIdx}
    /\ loadError' = TRUE
    /\ Exit(1)
    /\ UNCHANGED <<walkVars, otherVars, valuesFiles, Batch, validated>>

\* lines 301-310: the pair's overrides fail to load, the loop continues
PairOverridesFail ==
    /\ pc = "pairOverrides"
    /\ pairIdx <= Len(pairs)
    /\ failed' = failed \cup {pairIdx}
    /\ loadError' = TRUE
    /\ pairIdx' = pairIdx + 1
    /\ UNCHANGED <<walkVars, otherVars, pc, exitCode, valuesFiles, pairs,
                   overallIssues, validated>>

\* lines 301-305
PairOverridesOK ==
    /\ pc = "pairOverrides"
    /\ pairIdx <= Len(pairs)
    /\ overridesValues' = MergeValues(<<pairs[pairIdx].override>>)
    /\ pc' = "pairValues"
    /\ UNCHANGED <<defaultValues, providedValues, ignoreList, stack, issues,
                   issuesFound, otherVars, exitCode, valuesFiles, Batch, History>>

\* lines 313-320: the merged values fail to load, the loop continues
PairValuesFail ==
    /\ pc = "pairValues"
    /\ failed' = failed \cup {pairIdx}
    /\ loadError' = TRUE
    /\ pairIdx' = pairIdx + 1
    /\ pc' = "pairOverrides"
    /\ UNCHANGED <<walkVars, otherVars, exitCode, valuesFiles, pairs,
                   overallIssues, validated>>

\* a batch loop whose flag is declared outside the loop and never reset
PairValuesOKKeepsFlag ==
    /\ pc = "pairValues"
    /\ providedValues' =
           MergeValues(<<pairs[pairIdx].override, pairs[pairIdx].service>>)
    /\ stack' = <<Frame(defaultValues, providedValues', overridesValues, <<>>)>>
    /\ validated' = validated \cup {pairIdx}
    /\ pc' = "pairValidate"
    /\ callBase' = Len(issues)
    /\ UNCHANGED <<defaultValues, overridesValues, ignoreList, issues, issuesFound,
                   callVars, detectVars, exitCode, valuesFiles, Batch, loadError, failed>>

\* lines 313-323: the merged values load, validateChartValues is called
PairValuesOK ==
    /\ pc = "pairValues"
    /\ providedValues' =
           MergeValues(<<pairs[pairIdx].override, pairs[pairIdx].service>>)
    /\ issuesFound' = FALSE
    /\ stack' = <<Frame(defaultValues, providedValues', overridesValues, <<>>)>>
    /\ validated' = validated \cup {pairIdx}
    /\ pc' = "pairValidate"
    /\ callBase' = Len(issues)
    /\ UNCHANGED <<defaultValues, overridesValues, ignoreList, issues,
                   callVars, detectVars, exitCode, valuesFiles, Batch, loadError, failed>>

\* lines 324-328
PairDone ==
    /\ pc = "pairValidate"
    /\ stack = <<>>
    /\ overallIssues' = (overallIssues \/ issuesFound)
    /\ pairIdx' = pairIdx + 1
    /\ pc' = "pairOverrides"
    /\ UNCHANGED <<walkVars, otherVars, exitCode, valuesFiles, pairs, History>>

\* lines 330-334
BatchDone ==
    /\ pc = "pairOverrides"
    /\ pairIdx > Len(pairs)
    /\ Exit(IF overallIssues THEN 1 ELSE 0)
    /\ UNCHANGED <<walkVars, otherVars, valuesFiles, Batch, History>>

MainInit ==
    /\ pc = "args"
    /\ exitCode = -1
    /\ ignoreList \in MainIgnoreLists
    /\ valuesFiles \in UNION { [1 .. n -> FilePool] : n \in 0 .. MaxFiles }
    /\ defaultValues = MapOf(EmptyMap)
    /\ providedValues = MapOf(EmptyMap)
    /\ overridesValues = Nil
    /\ stack = <<>>
    /\ issues = <<>>
    /\ issuesFound = FALSE
    /\ pairs = <<>>
    /\ pairIdx = 0
    /\ overallIssues = FALSE
    /\ loadError = FALSE
    /\ failed = {}
    /\ validated = {}
    /\ callPath = <<>>
    /\ called = FALSE
    /\ ignored = FALSE
    /\ fs = {}
    /\ walkQueue = <<>>
    /\ detected = <<>>
    /\ detectPc = "idle"
    /\ callBase = 0

MainNext ==
    \/ Usage \/ ArgsOK
    \/ FindChartFail \/ FindChartOK
    \/ ChartDirMissing \/ ChartDirOK
    \/ HelmInitFail \/ HelmInitOK
    \/ LoadChartFail \/ LoadChartOK
    \/ LoadOverrideFail \/ LoadOverrideOK
    \/ LoadValuesFail \/ LoadValuesOK
    \/ ExplicitDone
    \/ GetwdFail \/ GetwdOK
    \/ DetectPairsFail \/ DetectPairsNone \/ DetectPairsOK
    \/ PairOverridesFail \/ PairOverridesOK
    \/ PairValuesFail \/ PairValuesOK
    \/ PairDone
    \/ BatchDone
    \/ validateChartValues

MainSpec == MainInit /\ [][MainNext]_vars

----------------------------------------------------------------------------
(* detectPairs *)

\* the deepest chain of directories generated below baseDir
MaxDirDepth == 2

\* the byte of a character, as Go compares strings
Byte(c) ==
    CASE c = "." -> 46
      [] c = "/" -> 47
      [] c = "a" -> 97
      [] c = "b" -> 98
      [] c = "o" -> 111
      [] c = "t" -> 116
      [] c = "w" -> 119
      [] c = "x" -> 120
      [] c = "y" -> 121

\* s < t on Go strings: bytewise, a proper prefix first
StrLess(s, t) ==
    \E i \in 1 .. (Len(s) + 1) :
        /\ i <= Len(t)
        /\ SubSeq(s, 1, i - 1) = SubSeq(t, 1, i - 1)
        /\ (i > Len(s) \/ Byte(s[i]) < Byte(t[i]))

RootDir == <<"/">>

\* filepath.Join(dir, name) of a clean dir and a single name
Join(dir, name) ==
    IF dir = RootDir THEN dir \o name ELSE dir \o <<"/">> \o name

LastSlash(path) ==
    CHOOSE i \in 1 .. Len(path) :
        path[i] = "/" /\ \A j \in (i + 1) .. Len(path) : path[j] # "/"

\* filepath.Dir(path) of a clean absolute path
Dir(path) ==
    IF LastSlash(path) = 1 THEN RootDir
    ELSE SubSeq(path, 1, LastSlash(path) - 1)

\* filepath.Base(path) of a clean absolute path
Base(path) ==
    IF path = RootDir THEN RootDir
    ELSE SubSeq(path, LastSlash(path) + 1, Len(path))

\* "overrides.yaml", ".yaml", the chart name and the working directory,
\* shortened: "o.y", ".y", "w" and "/t"
OverridesYaml == <<"o", ".", "y">>
YamlExt == <<".", "y">>
chartName == <<"w">>
baseDir == <<"/", "t">>
\* a file whose name only ends with the chart's: "xw.y"
OtherYaml == <<"x", "w", ".", "y">>
SubDirA == <<"a">>
SubDirB == <<"b">>

Entry(path, isDir) == [path |-> path, isDir |-> isDir]

\* os.Stat(path) finds something
StatOK(tree, path) == \E e \in tree : e.path = path

\* info.IsDir()
IsDir(tree, path) == \E e \in tree : e.path = path /\ e.isDir

\* what a generated directory holds besides directories: an overrides.yaml
\* (a file or a directory), a <chartName>.yaml, a file of another name
FilesIn(dir, chartKinds, others) ==
    { o \cup w \cup x :
        o \in { {} } \cup { {Entry(Join(dir, OverridesYaml), d)} : d \in BOOLEAN },
        w \in { {} } \cup { {Entry(Join(dir, chartName \o YamlExt), d)} : d \in chartKinds },
        x \in { {} } \cup { {Entry(Join(dir, OtherYaml), FALSE)} : n \in others } }

RECURSIVE TreesUnder(_, _)
\* what directory dir holds, with a chain of depth directories "a" below it
TreesUnder(dir, depth) ==
    IF depth = 0 THEN FilesIn(dir, {FALSE}, {})
    ELSE { f \cup sub :
             f \in FilesIn(dir, {FALSE}, {}),
             sub \in { {} } \cup
                     { {Entry(Join(dir, SubDirA), TRUE)} \cup c
                       : c \in TreesUnder(Join(dir, SubDirA), depth - 1) } }

\* the directory trees detectPairs is run on: /t with /t/a, /t/a/a, ... and
\* /t/b below it, and an overrides.yaml above it or not
FileSystems ==
    { {Entry(RootDir, TRUE), Entry(baseDir, TRUE)} \cup above \cup top \cup subA \cup subB :
        above \in { {}, {Entry(Join(RootDir, OverridesYaml), FALSE)} },
        top \in FilesIn(baseDir, {FALSE}, {1}),
        subA \in { {} } \cup
                 { {Entry(Join(baseDir, SubDirA), TRUE)} \cup c
                   : c \in TreesUnder(Join(baseDir, SubDirA), MaxDirDepth - 1) },
        subB \in { {} } \cup
                 { {Entry(Join(baseDir, SubDirB), TRUE)} \cup c
                   : c \in FilesIn(Join(baseDir, SubDirB), BOOLEAN, {}) } }

RECURSIVE WalkFrom(_, _)
RECURSIVE WalkNames(_, _)
\* filepath.Walk(path, fn): the paths handed to fn, in order: a directory,
\* then what it holds in lexical order of the names
WalkFrom(tree, path) ==
    <<path>> \o
    (IF IsDir(tree, path)
     THEN WalkNames(tree, { e.path : e \in { x \in tree : x.path # path /\ Dir(x.path) = path } })
     ELSE <<>>)

WalkNames(tree, paths) ==
    IF paths = {} THEN <<>>
    ELSE LET first == CHOOSE p \in paths :
                          \A q \in paths \ {p} : StrLess(Base(p), Base(q))
         IN  WalkFrom(tree, first) \o WalkNames(tree, paths \ {first})

RECURSIVE nearestOverrideAbove(_, _)
\* an upward walk that does not stop at baseDir
nearestOverrideAbove(tree, currentDir) ==
    LET candidate == Join(currentDir, OverridesYaml)
        parent == Dir(currentDir)
    IN  IF StatOK(tree, candidate) /\ ~IsDir(tree, candidate) THEN candidate
        ELSE IF parent = currentDir THEN <<>>
        ELSE nearestOverrideAbove(tree, parent)

RECURSIVE nearestOverride(_, _)
\* lines 154-170: the loop from currentDir upward; "" when nothing is found
nearestOverride(tree, currentDir) ==
    LET candidate == Join(currentDir, OverridesYaml)
        parent == Dir(currentDir)
    IN  IF StatOK(tree, candidate) /\ ~IsDir(tree, candidate) THEN candidate
        ELSE IF currentDir = baseDir THEN <<>>
        ELSE IF parent = currentDir THEN <<>>
        ELSE nearestOverride(tree, parent)

valuePair(override, service) == [override |-> override, service |-> service]

\* a comparison by the service path alone
pairLessByService(x, y) == StrLess(x.service, y.service)

\* lines 180-185: the less function of sort.Slice
pairLess(x, y) ==
    IF x.override # y.override THEN StrLess(x.override, y.override)
    ELSE StrLess(x.service, y.service)

RECURSIVE sortPairs(_)
\* sort.Slice(pairs, less)
sortPairs(ps) ==
    IF ps = <<>> THEN <<>>
    ELSE LET i == CHOOSE n \in 1 .. Len(ps) :
                      \A m \in 1 .. Len(ps) : ~pairLess(ps[m], ps[n])
         IN  <<ps[i]>> \o sortPairs(SubSeq(ps, 1, i - 1) \o SubSeq(ps, i + 1, Len(ps)))

\* line 150: the callback's test of the path it is handed
isService(path) ==
    ~IsDir(fs, path) /\ Base(path) = chartName \o YamlExt

DetectRest == <<walkVars, mainVars, callVars, callBase, fs>>

\* lines 147-149: the walk hands the callback an error, detectPairs returns it
WalkError ==
    /\ detectPc = "walk"
    /\ walkQueue # <<>>
    /\ detectPc' = "error"
    /\ detected' = <<>>
    /\ UNCHANGED <<walkQueue, DetectRest>>

\* line 150: a directory, or a file of another name
VisitOther ==
    /\ detectPc = "walk"
    /\ walkQueue # <<>>
    /\ ~isService(Head(walkQueue))
    /\ walkQueue' = Tail(walkQueue)
    /\ UNCHANGED <<detected, detectPc, DetectRest>>

\* lines 150-173: a service file no overrides.yaml is found for
VisitUnpaired ==
    /\ detectPc = "walk"
    /\ walkQueue # <<>>
    /\ isService(Head(walkQueue))
    /\ nearestOverride(fs, Dir(Head(walkQueue))) = <<>>
    /\ walkQueue' = Tail(walkQueue)
    /\ UNCHANGED <<detected, detectPc, DetectRest>>

\* lines 150-173: a service file and the overrides.yaml found for it
VisitPaired ==
    /\ detectPc = "walk"
    /\ walkQueue # <<>>
    /\ isService(Head(walkQueue))
    /\ nearestOverride(fs, Dir(Head(walkQueue))) # <<>>
    /\ detected' = Append(detected,
           valuePair(nearestOverride(fs, Dir(Head(walkQueue))), Head(walkQueue)))
    /\ walkQueue' = Tail(walkQueue)
    /\ UNCHANGED <<detectPc, DetectRest>>

\* lines 176-187: the walk is over, the pairs are sorted and returned
SortAndReturn ==
    /\ detectPc = "walk"
    /\ walkQueue = <<>>
    /\ detected' = sortPairs(detected)
    /\ detectPc' = "done"
    /\ UNCHANGED <<walkQueue, DetectRest>>

DetectInit ==
    /\ fs \in FileSystems
    /\ walkQueue = WalkFrom(fs, baseDir)
    /\ detected = <<>>
    /\ detectPc = "walk"
    /\ pc = "detect"
    /\ exitCode = -1
    /\ defaultValues = MapOf(EmptyMap)
    /\ providedValues = MapOf(EmptyMap)
    /\ overridesValues = Nil
    /\ ignoreList = <<>>
    /\ stack = <<>>
    /\ issues = <<>>
    /\ issuesFound = FALSE
    /\ valuesFiles = <<>>
    /\ pairs = <<>>
    /\ pairIdx = 0
    /\ overallIssues = FALSE
    /\ loadError = FALSE
    /\ failed = {}
    /\ validated = {}
    /\ callPath = <<>>
    /\ called = FALSE
    /\ ignored = FALSE
    /\ callBase = 0

DetectNext ==
    \/ WalkError
    \/ VisitOther
    \/ VisitUnpaired
    \/ VisitPaired
    \/ SortAndReturn

DetectSpec == DetectInit /\ [][DetectNext]_vars

----------------------------------------------------------------------------
(* The trees read as a whole: what the claims speak of *)

\* the sequences of keys that lead to a value of tree t
RECURSIVE KeyPathsOf(_)
KeyPathsOf(t) ==
    IF ~IsMap(t) THEN {}
    ELSE UNION { {<<k>>} \cup { <<k>> \o kp : kp \in KeyPathsOf(t.kids[k]) }
                 : k \in DOMAIN t.kids }

RECURSIVE Exists(_, _)
Exists(t, kp) ==
    kp = <<>> \/ (Has(t, Head(kp)) /\ Exists(t.kids[Head(kp)], Tail(kp)))

RECURSIVE At(_, _)
At(t, kp) == IF kp = <<>> THEN t ELSE At(Get(t, Head(kp)), Tail(kp))

Parent(kp) == SubSeq(kp, 1, Len(kp) - 1)
Last(kp) == kp[Len(kp)]

\* the dot-joined path of a sequence of keys
RECURSIVE PathOf(_)
PathOf(kp) ==
    IF Len(kp) = 1 THEN kp[1] ELSE PathOf(Parent(kp)) \o <<".">> \o Last(kp)

\* some entry of the ignore list is an initial part of path p
StartsWithEntry(p) ==
    \E i \in 1 .. Len(ignoreList) : \E n \in 0 .. Len(p) :
        SubSeq(p, 1, n) = ignoreList[i]

\* the walk reaches the key at kp: no path down to it is ignored, and every
\* ancestor is a map in the defaults and in the provided tree
Visited(kp) ==
    /\ Exists(providedValues, kp)
    /\ \A n \in 1 .. Len(kp) : ~StartsWithEntry(PathOf(SubSeq(kp, 1, n)))
    /\ \A n \in 1 .. (Len(kp) - 1) :
        /\ Exists(defaultValues, SubSeq(kp, 1, n))
        /\ IsMap(At(defaultValues, SubSeq(kp, 1, n)))
        /\ IsMap(At(providedValues, SubSeq(kp, 1, n)))

\* the overrides the call for the map at kp is given: the root's, then at
\* each level the sub-map under the key, or an empty map when there is none
RECURSIVE OverridesFor(_)
OverridesFor(kp) ==
    IF kp = <<>> THEN overridesValues
    ELSE LET up == OverridesFor(Parent(kp))
         IN  IF Has(up, Last(kp)) /\ IsMap(up.kids[Last(kp)])
             THEN up.kids[Last(kp)] ELSE MapOf(EmptyMap)

IssuesAt(p) == { i \in DOMAIN issues : issues[i].path = p }

Reported(kind, p) == \E i \in IssuesAt(p) : issues[i].kind = kind

\* a printed type name names the type of v ("map" is how line 79 names a map)
NamesType(name, v) == name = FmtT(v) \/ (name = "map" /\ v.tag = "map")

Returned == stack = <<>>

ProvidedPaths == KeyPathsOf(providedValues)

\* the default at kp is no map and equals the provided value
EqualsScalarDefault(kp) ==
    /\ Visited(kp)
    /\ Exists(defaultValues, kp)
    /\ ~IsMap(At(defaultValues, kp))
    /\ At(defaultValues, kp) = At(providedValues, kp)

\* the overrides at the level of kp hold its key with another value
OverriddenElsewhere(kp) ==
    /\ Has(OverridesFor(Parent(kp)), Last(kp))
    /\ OverridesFor(Parent(kp)).kids[Last(kp)] # At(providedValues, kp)

----------------------------------------------------------------------------
(* Claims *)

\* C1: called with no overrides tree, every visited key whose default is
\* no map and equals the provided value gets a Redundant issue at its full
\* path, and issuesFound is true.
C1_RedundantWithoutOverrides ==
    (Returned /\ overridesValues = Nil) =>
        \A kp \in ProvidedPaths :
            EqualsScalarDefault(kp) =>
                (Reported("Redundant", PathOf(kp)) /\ issuesFound)

C1_Witness ==
    /\ Returned /\ overridesValues = Nil
    /\ \E kp \in ProvidedPaths :
        Len(kp) = 2 /\ EqualsScalarDefault(kp) /\ Reported("Redundant", PathOf(kp))

\* C2: at any depth, a visited key equal to its default whose overrides at
\* that level hold the key with a value other than the provided one gets
\* no issue, and alone it leaves issuesFound false.
C2_OverrideResetSuppressed ==
    Returned =>
        \A kp \in ProvidedPaths :
            ( /\ Visited(kp)
              /\ Exists(defaultValues, kp)
              /\ At(defaultValues, kp) = At(providedValues, kp)
              /\ OverriddenElsewhere(kp) ) =>
                /\ ~Reported("Redundant", PathOf(kp))
                /\ ~IsMap(At(providedValues, kp)) => IssuesAt(PathOf(kp)) = {}
                /\ (\A other \in ProvidedPaths :
                        \E n \in 1 .. Len(kp) : other = SubSeq(kp, 1, n))
                   => ~issuesFound

C2_Witness ==
    /\ Returned
    /\ \E kp \in ProvidedPaths :
        /\ Len(kp) = 2
        /\ EqualsScalarDefault(kp)
        /\ OverriddenElsewhere(kp)
        /\ ~issuesFound

\* C3: with an overrides tree, a visited key whose default is no map and
\* equals the provided value still gets a Redundant issue when the overrides
\* at its level lack the key or hold the provided value.
C3_RedundantDespiteOverrides ==
    (Returned /\ overridesValues # Nil) =>
        \A kp \in ProvidedPaths :
            (EqualsScalarDefault(kp) /\ ~OverriddenElsewhere(kp)) =>
                (Reported("Redundant", PathOf(kp)) /\ issuesFound)

C3_Witness ==
    /\ Returned /\ overridesValues # Nil
    /\ \E kp \in ProvidedPaths :
        /\ Len(kp) = 2
        /\ EqualsScalarDefault(kp)
        /\ Has(overridesValues, kp[1])
        /\ ~IsMap(overridesValues.kids[kp[1]])
        /\ Reported("Redundant", PathOf(kp))

\* both values are non-nil and of different types
DifferentTypes(kp) ==
    /\ Visited(kp)
    /\ Exists(defaultValues, kp)
    /\ At(defaultValues, kp) # Nil
    /\ At(providedValues, kp) # Nil
    /\ At(defaultValues, kp).tag # At(providedValues, kp).tag

\* C4: a visited key whose default and provided values are non-nil and of
\* different types gets exactly one issue, a Type mismatch that names the
\* default's type as expected and the provided type as actual, and
\* issuesFound is true, with or without an overrides tree.
C4_TypeMismatchReported ==
    Returned =>
        \A kp \in ProvidedPaths :
            DifferentTypes(kp) =>
                /\ Cardinality(IssuesAt(PathOf(kp))) = 1
                /\ \A i \in IssuesAt(PathOf(kp)) :
                    /\ issues[i].kind = "TypeMismatch"
                    /\ NamesType(issues[i].expected, At(defaultValues, kp))
                    /\ NamesType(issues[i].actual, At(providedValues, kp))
                /\ issuesFound

C4_Witness ==
    /\ Returned /\ overridesValues # Nil
    /\ \E kp \in ProvidedPaths :
        /\ DifferentTypes(kp)
        /\ IsMap(At(providedValues, kp))
        /\ Has(overridesValues, kp[1])
        /\ Reported("TypeMismatch", PathOf(kp))

\* C5: with no overrides tree, a visited key absent from the defaults at
\* its level gets exactly one Unexpected-key issue at its full path,
\* issuesFound is true, and nothing is reported beneath it.
C5_UnexpectedKeyReported ==
    (Returned /\ overridesValues = Nil) =>
        \A kp \in ProvidedPaths :
            (Visited(kp) /\ ~Exists(defaultValues, kp)) =>
                /\ Cardinality(IssuesAt(PathOf(kp))) = 1
                /\ Reported("Unexpected", PathOf(kp))
                /\ issuesFound

\* C6 as stated: with no overrides and an empty ignore list, a provided
\* tree equal to the defaults gets no issue and issuesFound stays false.
C6_EqualTreesNoIssues ==
    ( /\ Returned
      /\ overridesValues = Nil
      /\ ignoreList = <<>>
      /\ providedValues = defaultValues ) =>
        (issues = <<>> /\ ~issuesFound)

\* C6 amended: with no overrides and an empty ignore list, a provided tree
\* equal to the defaults gets exactly one issue for each of its values that
\* is no map, a Redundant one, and none for a map; issuesFound is true
\* exactly when there is such a value.
C6_EqualTreesRedundantOnly ==
    ( /\ Returned
      /\ overridesValues = Nil
      /\ ignoreList = <<>>
      /\ providedValues = defaultValues ) =>
        LET scalarPaths == { kp \in ProvidedPaths : ~IsMap(At(providedValues, kp)) }
        IN  /\ \A i \in DOMAIN issues :
                /\ issues[i].kind = "Redundant"
                /\ \E kp \in scalarPaths : issues[i].path = PathOf(kp)
            /\ \A kp \in scalarPaths : Cardinality(IssuesAt(PathOf(kp))) = 1
            /\ issuesFound <=> scalarPaths # {}

C6_Witness ==
    /\ Returned
    /\ overridesValues = Nil
    /\ ignoreList = <<>>
    /\ providedValues = defaultValues
    /\ Len(issues) = 1
    /\ \E kp \in ProvidedPaths : IsMap(At(providedValues, kp))

\* C7: no issue is ever reported at a path that starts with an entry of the
\* ignore list, no call is ever made for a map at such a path, and when
\* every top-level provided key is ignored issuesFound stays false.
C7_IgnoreSuppressesSubtree ==
    /\ \A i \in DOMAIN issues : ~StartsWithEntry(issues[i].path)
    /\ \A j \in 2 .. Len(stack) : ~StartsWithEntry(stack[j].prefix)
    /\ (\A k \in DOMAIN providedValues.kids : StartsWithEntry(k))
        => (~issuesFound /\ issues = <<>>)

C7_Witness ==
    /\ Returned
    /\ DOMAIN providedValues.kids = {KeyA, KeyAB}
    /\ ignoreList = << <<"a">> >>
    /\ providedValues = defaultValues
    /\ ~issuesFound

\* C8: shouldIgnore returns true exactly when some entry of the list, followed
\* by any string (the empty one too), makes up the path: "a" ignores "a",
\* "aa" and "a.a" alike, an empty list ignores nothing, and an entry longer
\* than the path does not ignore it.
C8_PlainPrefixMatch ==
    called =>
        /\ ignored <=>
               \E i \in 1 .. Len(ignoreList) : \E rest \in StringsUpTo(Len(callPath)) :
                   callPath = ignoreList[i] \o rest
        /\ ignoreList = <<>> => ~ignored
        /\ (\A i \in 1 .. Len(ignoreList) : Len(ignoreList[i]) > Len(callPath))
               => ~ignored
        /\ ( /\ \E i \in 1 .. Len(ignoreList) : ignoreList[i] = <<"a">>
             /\ callPath \in { <<"a">>, <<"a", "a">>, <<"a", ".", "a">> } )
               => ignored

C8_Witness ==
    /\ called
    /\ ignored
    /\ callPath = <<"a", "a">>
    /\ ignoreList = << <<"a", ".">>, <<"a">> >>

\* C9: the process exits with code 0 only when no issue was reported and
\* nothing failed to load.
C9_ExitZeroOnlyIfClean ==
    (pc = "exit" /\ exitCode = 0) => (issues = <<>> /\ ~loadError)

\* C10: in auto-detect mode validateChartValues is never called for a pair
\* whose files failed to load, a failure or a found issue never ends the
\* loop, and when the process exits after the loop every detected pair was
\* either skipped for a load failure or validated.
C10_BatchSkipsAndContinues ==
    /\ validated \cap failed = {}
    /\ pc = "pairOverrides" => validated \cup failed = 1 .. (pairIdx - 1)
    /\ pc \in {"pairValues", "pairValidate"} =>
           /\ pairIdx \in 1 .. Len(pairs)
           /\ validated \cup failed \in { 1 .. (pairIdx - 1), 1 .. pairIdx }
    /\ (pc = "exit" /\ pairs # <<>>) =>
           /\ pairIdx = Len(pairs) + 1
           /\ validated \cup failed = 1 .. Len(pairs)
           /\ exitCode = IF overallIssues THEN 1 ELSE 0

C10_Witness ==
    /\ pc = "exit"
    /\ Len(pairs) = 2
    /\ failed = {1}
    /\ validated = {2}
    /\ overallIssues

----------------------------------------------------------------------------
(* The directory tree read as a whole *)

\* the regular files below baseDir whose name is <chartName>.yaml
ServiceFiles ==
    { e.path : e \in { x \in fs :
        /\ ~x.isDir
        /\ HasPrefix(x.path, baseDir \o <<"/">>)
        /\ \E d \in { SubSeq(x.path, 1, n) : n \in 0 .. Len(x.path) } :
               x.path = d \o <<"/">> \o chartName \o YamlExt } }

\* the regular files overrides.yaml in the directory of service or in a
\* directory above it, baseDir the highest
OverrideFilesFor(service) ==
    { e.path : e \in { x \in fs :
        /\ ~x.isDir
        /\ \E d \in { SubSeq(service, 1, n) : n \in 0 .. Len(service) } :
               /\ x.path = d \o <<"/">> \o OverridesYaml
               /\ HasPrefix(service, d \o <<"/">>)
               /\ HasPrefix(d, baseDir) } }

\* the nearest of them: the one of the longest path
NearestFor(service) ==
    CHOOSE o \in OverrideFilesFor(service) :
        \A q \in OverrideFilesFor(service) : Len(q) <= Len(o)

ExpectedPairs ==
    { valuePair(NearestFor(s), s) : s \in { x \in ServiceFiles : OverrideFilesFor(x) # {} } }

\* C11: what detectPairs returns holds one pair for each regular file
\* <chartName>.yaml below baseDir that has a regular file overrides.yaml in
\* its directory or above it up to baseDir, paired with the nearest one, and
\* nothing else; no override lies above baseDir; the pairs are in ascending
\* order of the override path, then of the service path.
C11_DetectPairsExact ==
    detectPc = "done" =>
        /\ { detected[i] : i \in 1 .. Len(detected) } = ExpectedPairs
        /\ Len(detected) = Cardinality(ExpectedPairs)
        /\ \A i \in 1 .. Len(detected) :
               HasPrefix(detected[i].override, baseDir \o <<"/">>)
        /\ \A i, j \in 1 .. Len(detected) :
               i < j =>
                   \/ StrLess(detected[i].override, detected[j].override)
                   \/ /\ detected[i].override = detected[j].override
                      /\ StrLess(detected[i].service, detected[j].service)

\* two pairs, one with its override found in a directory above its service
\* file; a service file left unpaired although an overrides.yaml lies above
\* baseDir
C11_Witness ==
    /\ detectPc = "done"
    /\ Len(detected) = 2
    /\ \E i \in 1 .. 2 : Dir(detected[i].override) # Dir(detected[i].service)
    /\ StatOK(fs, Join(RootDir, OverridesYaml))
    /\ \E s \in ServiceFiles : \A i \in 1 .. 2 : detected[i].service # s

----------------------------------------------------------------------------
(* Two calls compared *)

IssueSet == { issues[i] : i \in 1 .. Len(issues) }

\* a key no generated tree holds, and the values a key is added with
KeyB == <<"b">>
AddedKeys == Keys \cup {KeyB}
AddedValues == Scalars \cup {MapOf(EmptyMap), MapOf(KeyA :> Str1)}

\* the defaults trees got from d by adding, at one level, one key that
\* neither d nor the provided tree p holds at that level
RECURSIVE WithAddedKey(_, _)
WithAddedKey(d, p) ==
    { MapOf((k :> v) @@ d.kids) :
        k \in AddedKeys \ (DOMAIN d.kids \cup DOMAIN p.kids), v \in AddedValues }
    \cup UNION { { MapOf([d.kids EXCEPT ![k] = e]) : e \in WithAddedKey(d.kids[k], Get(p, k)) }
                 : k \in { x \in DOMAIN d.kids : IsMap(d.kids[x]) } }

\* C12: keys only the defaults hold do not influence the result: the issues
\* a call has printed and the flag it leaves are those of the call on any
\* defaults tree with one more key, added at a level where the provided tree
\* has no such key; and every issue printed, at any moment, is for the path of
\* a key the provided tree holds.
C12_DefaultOnlyKeysIgnored ==
    /\ \A i \in 1 .. Len(issues) :
           \E kp \in ProvidedPaths : issues[i].path = PathOf(kp)
    /\ Returned =>
           \A d \in WithAddedKey(defaultValues, providedValues) :
               /\ validateResult(d, providedValues, overridesValues, <<>>, ignoreList)
                      = IssueSet
               /\ (validateResult(d, providedValues, overridesValues, <<>>, ignoreList) # {})
                      = issuesFound

\* a call that printed an issue has returned, on defaults that hold a key the
\* provided tree lacks
C12_Witness ==
    /\ Returned
    /\ issues # <<>>
    /\ DOMAIN defaultValues.kids \ DOMAIN providedValues.kids # {}

----------------------------------------------------------------------------
(* The branches of one key *)

\* the default at kp is a map, the provided value is none
MapVsNonMap(kp) ==
    /\ Visited(kp)
    /\ Exists(defaultValues, kp)
    /\ IsMap(At(defaultValues, kp))
    /\ ~IsMap(At(providedValues, kp))

\* C13: a visited key whose default is a map and whose provided value is a
\* scalar, a sequence or nil gets exactly one issue, a Type mismatch that
\* expects "map" and names the provided type, and sets the flag; no call of
\* validateChartValues is ever made for the key.
C13_MapMismatchReportedOnce ==
    /\ \A kp \in ProvidedPaths :
           MapVsNonMap(kp) =>
               \A j \in 1 .. Len(stack) : stack[j].prefix # PathOf(kp)
    /\ Returned =>
           \A kp \in ProvidedPaths :
               MapVsNonMap(kp) =>
                   /\ Cardinality(IssuesAt(PathOf(kp))) = 1
                   /\ \A i \in IssuesAt(PathOf(kp)) :
                          /\ issues[i].kind = "TypeMismatch"
                          /\ issues[i].expected = "map"
                          /\ issues[i].actual = FmtT(At(providedValues, kp))
                   /\ issuesFound

\* a returned call that met a sequence where the defaults hold a map
C13_Witness ==
    /\ Returned
    /\ \E kp \in ProvidedPaths :
           /\ MapVsNonMap(kp)
           /\ At(providedValues, kp) = List1
           /\ Reported("TypeMismatch", PathOf(kp))

\* the default at kp is no map and differs from the provided value, and the
\* two are of one type or one of them is nil
SilentDifference(kp) ==
    /\ Visited(kp)
    /\ Exists(defaultValues, kp)
    /\ ~IsMap(At(defaultValues, kp))
    /\ ~DeepEqual(At(defaultValues, kp), At(providedValues, kp))
    /\ \/ At(defaultValues, kp).tag = At(providedValues, kp).tag
       \/ At(defaultValues, kp) = Nil
       \/ At(providedValues, kp) = Nil

\* C14: a visited key whose default is no map and differs from the provided
\* value gets no issue of any kind, at any moment, when the two values are of
\* the same type or one of them is nil; and the flag is never set without an
\* issue printed, so such a key does not set it.
C14_SameTypeOrNilSilent ==
    /\ \A kp \in ProvidedPaths :
           SilentDifference(kp) => IssuesAt(PathOf(kp)) = {}
    /\ issuesFound => issues # <<>>

\* a returned call that met a sequence differing from the default sequence
\* and a string where the default is nil, and printed nothing
C14_Witness ==
    /\ Returned
    /\ ~issuesFound
    /\ \E kp \in ProvidedPaths :
           /\ SilentDifference(kp)
           /\ At(defaultValues, kp) = List1
           /\ At(providedValues, kp) = List2
    /\ \E kp \in ProvidedPaths :
           /\ SilentDifference(kp)
           /\ At(defaultValues, kp) = Nil
           /\ At(providedValues, kp) = Str1

----------------------------------------------------------------------------
(* The walk as a whole *)

\* the paths of the keys of the provided tree the active calls have still to
\* visit: the keys left in each loop and everything below them
Pending ==
    UNION { UNION { {FullKey(stack[j].prefix, k)} \cup
                    { FullKey(stack[j].prefix, k) \o <<".">> \o PathOf(kp)
                      : kp \in KeyPathsOf(stack[j].p.kids[k]) }
                    : k \in stack[j].todo }
            : j \in 1 .. Len(stack) }

\* C15: a call that has not returned can always take a step, and every step
\* brings it nearer to its return (twice the number of keys to visit plus the
\* number of active calls decreases): it either ends the innermost call or
\* visits one key that was still to visit, which is then never to visit
\* again, and nothing is ever added to what is to visit; no step changes the
\* defaults, the provided tree, the overrides or the ignore list.
C15_TerminatesVisitsOnce ==
    /\ [](Returned \/ ENABLED validateChartValues)
    /\ [][ /\ UNCHANGED <<defaultValues, providedValues, overridesValues, ignoreList>>
           /\ Pending' \subseteq Pending
           /\ 2 * Cardinality(Pending') + Len(stack') < 2 * Cardinality(Pending) + Len(stack)
           /\ \/ /\ Len(stack') = Len(stack) - 1
                 /\ Pending' = Pending
                 /\ UNCHANGED <<issues, issuesFound>>
              \/ /\ Len(stack') >= Len(stack)
                 /\ \E key \in Top.todo :
                        /\ FullKey(Top.prefix, key) \in Pending
                        /\ FullKey(Top.prefix, key) \notin Pending' ]_vars

\* a call given overrides has recursed into a nested map, visited a key
\* there and returned
C15_Witness ==
    /\ Returned
    /\ overridesValues # Nil
    /\ \E kp \in ProvidedPaths :
           /\ Len(kp) = 2
           /\ Visited(kp)
           /\ IssuesAt(PathOf(kp)) # {}

----------------------------------------------------------------------------
(* Calls with and without overrides, and in any order *)

\* what the call prints when it is given no overrides tree
WithoutOverrides ==
    validateResult(defaultValues, providedValues, Nil, <<>>, ignoreList)

\* C16: what a call given any overrides tree has printed is part of what the
\* call given nil overrides prints; what is missing are Redundant issues only,
\* so the Type mismatches are the same; and given an empty overrides map the
\* call prints the same issues and leaves the same flag as given nil.
C16_OverridesOnlySuppressRedundant ==
    Returned =>
        /\ IssueSet \subseteq WithoutOverrides
        /\ \A x \in WithoutOverrides \ IssueSet : x.kind = "Redundant"
        /\ { x \in IssueSet : x.kind = "TypeMismatch" }
               = { x \in WithoutOverrides : x.kind = "TypeMismatch" }
        /\ overridesValues = MapOf(EmptyMap) =>
               /\ IssueSet = WithoutOverrides
               /\ issuesFound = (WithoutOverrides # {})

\* a returned call whose overrides suppressed a Redundant issue and left a
\* Type mismatch
C16_Witness ==
    /\ Returned
    /\ overridesValues # Nil
    /\ WithoutOverrides \ IssueSet # {}
    /\ \E x \in IssueSet : x.kind = "TypeMismatch"

\* C17: whatever the order in which the keys of each provided map are
\* visited, a returned call has printed each issue of the comparator's
\* result once and nothing else, and the flag tells whether that result is
\* empty: the set of issues and the flag depend on the arguments alone.
C17_OrderIndependent ==
    Returned =>
        /\ IssueSet = validateResult(defaultValues, providedValues,
                                     overridesValues, <<>>, ignoreList)
        /\ Len(issues) = Cardinality(IssueSet)
        /\ issuesFound = (validateResult(defaultValues, providedValues,
                                         overridesValues, <<>>, ignoreList) # {})

\* a returned call that visited key "ab" before key "a" and printed an issue
\* of a different kind for each
C17_Witness ==
    /\ Returned
    /\ Len(issues) = 2
    /\ issues[1].path = KeyAB
    /\ issues[2].path = KeyA
    /\ issues[1].kind # issues[2].kind

----------------------------------------------------------------------------
(* The flag *)

\* main is in, or just back from, a call of validateChartValues
InCall == pc \in {"validate", "pairValidate"}

\* C18: no step of validateChartValues writes false to the flag; every call
\* main makes starts with the flag false, and from then on, in every state of
\* the call and when it has returned, the flag is true exactly when the call
\* has printed an issue; in batch mode, between two pairs and at the exit,
\* overallIssues is true exactly when the call of some validated pair printed
\* an issue, that is when some pair's flag ended true.
C18_FlagMonotoneExact ==
    /\ [][validateChartValues => (issuesFound => issuesFound')]_vars
    /\ [][(InCall' /\ ~InCall) => (~issuesFound' /\ callBase' = Len(issues'))]_vars
    /\ [](InCall => (issuesFound <=> Len(issues) > callBase))
    /\ []((pairs # <<>> /\ ~InCall) => (overallIssues <=> issues # <<>>))
    /\ []((pairs # <<>> /\ ~InCall) => (overallIssues => validated # {}))

\* a batch run has ended: the first pair's call printed an issue, the second
\* pair's call started from a fresh flag and printed none
C18_Witness ==
    /\ pc = "exit"
    /\ Len(pairs) = 2
    /\ validated = {1, 2}
    /\ overallIssues
    /\ ~issuesFound
    /\ Len(issues) = callBase

====
